---------------------------- MODULE Spec2Model ----------------------------
(***************************************************************************)
(* The statsite sink of go-metrics: a bounded channel of formatted lines,  *)
(* filled by non-blocking emits, and one worker goroutine (flushMetrics)   *)
(* that dials the server, streams the lines through a buffered writer,     *)
(* flushes on a ticker and, after any failure, waits while draining the    *)
(* channel before it dials again.                                          *)
(*                                                                         *)
(* A line is identified by the order in which it was emitted (1, 2, ...);  *)
(* the channel, the buffered writer and the server's input hold these      *)
(* numbers.                                                                *)
(*                                                                         *)
(* The text of a line is built by the emit operations from a key, labels   *)
(* and a value (FormatSpec, AliasSpec: strings are sequences of            *)
(* characters, a key is a slice over a backing array), and a sink is       *)
(* chosen from a URL by the endpoint factory (FactorySpec).                *)
(***************************************************************************)
EXTENDS Integers, Sequences, FiniteSets, TLC

\* Capacity of metricQueue, scaled down (the code makes the channel with 4096).
QueueCap == 2
\* Lines the bufio.Writer holds before a Write flushes it to the socket.
BufCap == 2
\* Emits of a run (a cap on the line counter).
MaxLines == 3
\* Calls to Shutdown of a run.
MaxShutdowns == 2

VARIABLES
    metricQueue,    \* contents of the channel s.metricQueue, oldest first
    chanClosed,     \* close(s.metricQueue) has happened
    queueRef,       \* the field s.metricQueue: "chan", or "nil" after QUIT
    state,          \* where flushMetrics is: CONNECTING, STREAMING, BACKOFF, TERMINATED
    sock,           \* the connection sock refers to: "none", "alive", "dead"
    buffered,       \* lines held by the bufio.Writer `buffered`
    tickerC,        \* a tick is pending in ticker.C (a channel of capacity 1)
    waitC,          \* the timer of time.After has fired and `wait` is readable
    serverUp,       \* the server accepts connections
    outage,         \* a failure has happened and no connect has succeeded since
    emitted,        \* history: per emitted line, what became of it and when it was emitted
    delivered,      \* history: the lines written to the transport, in order
    shutdownCalls,  \* number of calls to Shutdown so far
    panics,         \* the operations of callers that ended in a run-time panic
    key0,           \* history: the key slice the caller passed, as it was before the calls
    keyArr,         \* the backing array of the caller's key slice
    calls,          \* per emit call in progress: its arguments, locals and result
    pushed,         \* the lines handed to pushMetric, in order
    url,            \* the URL given to NewSinkFromURL
    result          \* what NewSinkFromURL returned, <<>> before the call

sinkVars == <<metricQueue, chanClosed, queueRef, state, sock, buffered, tickerC, waitC,
              serverUp, outage, emitted, delivered, shutdownCalls, panics>>

\* The state of the emit calls being formatted.
fmtVars == <<key0, keyArr, calls, pushed>>

\* The state of a call of the factory.
urlVars == <<url, result>>

vars == <<sinkVars, fmtVars, urlVars>>

\* What the worker owns.
workerVars == <<state, sock, buffered, tickerC, waitC>>

Range(s) == {s[i] : i \in 1..Len(s)}

States == {"CONNECTING", "STREAMING", "BACKOFF", "TERMINATED"}

TypeOK ==
    /\ metricQueue \in Seq(1..MaxLines)
    /\ chanClosed \in BOOLEAN
    /\ queueRef \in {"chan", "nil"}
    /\ state \in States
    /\ sock \in {"none", "alive", "dead"}
    /\ buffered \in Seq(1..MaxLines)
    /\ tickerC \in BOOLEAN /\ waitC \in BOOLEAN /\ serverUp \in BOOLEAN
    /\ outage \in BOOLEAN
    /\ Len(emitted) <= MaxLines
    /\ delivered \in Seq(1..MaxLines)
    /\ shutdownCalls \in 0..MaxShutdowns
    /\ panics \subseteq {"emit", "shutdown"}

\* NewSink: the channel is made empty and open, the worker is started and has
\* created its ticker; it has not dialed yet.
SinkInit ==
    /\ metricQueue = <<>>
    /\ chanClosed = FALSE
    /\ queueRef = "chan"
    /\ state = "CONNECTING"
    /\ sock = "none"
    /\ buffered = <<>>
    /\ tickerC = FALSE
    /\ waitC = FALSE
    /\ serverUp \in BOOLEAN
    /\ outage = FALSE
    /\ emitted = <<>>
    /\ delivered = <<>>
    /\ shutdownCalls = 0
    /\ panics = {}

\* No emit call is being formatted.
NoCalls ==
    /\ key0 = [arr |-> <<>>, len |-> 0]
    /\ keyArr = <<>>
    /\ calls = <<>>
    /\ pushed = <<>>

\* No URL has been given to the factory.
NoURL == url = "none" /\ result = <<>>

\* A sink constructed directly with NewSink.
Init == SinkInit /\ NoCalls /\ NoURL

\* The values a caller's unsynchronised read of the field s.metricQueue may
\* return: the worker's write of nil at QUIT is ordered with no caller's read,
\* so a caller may still see the channel.
VisibleRefs == IF queueRef = "nil" THEN {"chan", "nil"} ELSE {"chan"}

\* When a line is emitted, for the history: "outage" after a failure and before
\* the next successful connect, "streaming" while the worker streams over a
\* live connection, "plain" otherwise.
Tag ==
    IF outage THEN "outage"
    ELSE IF state = "STREAMING" /\ sock = "alive" THEN "streaming"
    ELSE "plain"

\* A line's record in the history: what became of it ("queued", "dropped",
\* and later "drained" by the wait loop or "lost" with a failed writer) and
\* when it was emitted.  A "streaming" line becomes
\* "due" when the flush timer fires, and "plain" when its connection dies.
Fate(f) == [fate |-> f, tag |-> IF f = "queued" THEN Tag ELSE "plain"]

\* The history once the lines of the set `lines` are lost with their writer.
Lose(lines) ==
    [i \in 1..Len(emitted) |->
        IF i \in lines THEN [emitted[i] EXCEPT !.fate = "lost"] ELSE emitted[i]]

Retag(from, to) ==
    [i \in 1..Len(emitted) |->
        IF emitted[i].tag \in from THEN [emitted[i] EXCEPT !.tag = to] ELSE emitted[i]]


-----------------------------------------------------------------------------
(* The callers' side: emits and Shutdown.                                  *)

\* The line the next emit formats.
NextLine == Len(emitted) + 1

\* Mutant of pushMetric: a plain send, s.metricQueue <- m, which waits for
\* room (and for ever on a nil channel).
pushMetric_Blocking ==
    /\ queueRef = "chan"
    /\ IF chanClosed
         THEN /\ panics' = panics \cup {"emit"}
              /\ UNCHANGED <<metricQueue, emitted>>
         ELSE /\ Len(metricQueue) < QueueCap
              /\ metricQueue' = Append(metricQueue, NextLine)
              /\ emitted' = Append(emitted, Fate("queued"))
              /\ UNCHANGED panics
    /\ UNCHANGED <<chanClosed, queueRef, workerVars, serverUp, outage,
                   delivered, shutdownCalls>>

\* Mutant of pushMetric: the queue grows without a limit.
pushMetric_Unbounded ==
    /\ IF chanClosed
         THEN /\ panics' = panics \cup {"emit"}
              /\ UNCHANGED <<metricQueue, emitted>>
         ELSE /\ metricQueue' = Append(metricQueue, NextLine)
              /\ emitted' = Append(emitted, Fate("queued"))
              /\ UNCHANGED panics
    /\ UNCHANGED <<chanClosed, queueRef, workerVars, serverUp, outage,
                   delivered, shutdownCalls>>

\* Mutant of pushMetric: with the queue full, the oldest line makes room for
\* the new one.
pushMetric_DropOldest ==
    /\ IF chanClosed
         THEN /\ panics' = panics \cup {"emit"}
              /\ UNCHANGED <<metricQueue, emitted>>
         ELSE /\ metricQueue' =
                    IF Len(metricQueue) < QueueCap
                      THEN Append(metricQueue, NextLine)
                      ELSE Append(Tail(metricQueue), NextLine)
              /\ emitted' = Append(emitted, Fate("queued"))
              /\ UNCHANGED panics
    /\ UNCHANGED <<chanClosed, queueRef, workerVars, serverUp, outage,
                   delivered, shutdownCalls>>

\* pushMetric: select { case s.metricQueue <- m: default: }.  A send on a nil
\* channel is never ready and a send on a channel with no room is not ready:
\* both take the default branch and the line is gone.  A send on a closed
\* channel panics, in a select as anywhere else.
pushMetric ==
    \E ref \in VisibleRefs :
        /\ IF ref = "nil"
             THEN /\ emitted' = Append(emitted, Fate("dropped"))
                  /\ UNCHANGED <<metricQueue, panics>>
             ELSE IF chanClosed
             THEN /\ panics' = panics \cup {"emit"}
                  /\ UNCHANGED <<metricQueue, emitted>>
             ELSE IF Len(metricQueue) < QueueCap
             THEN /\ metricQueue' = Append(metricQueue, NextLine)
                  /\ emitted' = Append(emitted, Fate("queued"))
                  /\ UNCHANGED panics
             ELSE /\ emitted' = Append(emitted, Fate("dropped"))
                  /\ UNCHANGED <<metricQueue, panics>>
        /\ UNCHANGED <<chanClosed, queueRef, workerVars, serverUp, outage,
                       delivered, shutdownCalls>>

\* SetGauge, EmitKey, IncrCounter, AddSample and the WithLabels variants: each
\* formats one line and hands it to pushMetric; nothing else of the Sink is
\* touched.
Emit ==
    /\ Len(emitted) < MaxLines
    /\ pushMetric

\* Mutant of Shutdown: a call on a closed queue clears the queue reference
\* instead of panicking.
Shutdown_ClearRef ==
    /\ shutdownCalls < MaxShutdowns
    /\ shutdownCalls' = shutdownCalls + 1
    /\ IF ~chanClosed
         THEN chanClosed' = TRUE /\ UNCHANGED queueRef
         ELSE queueRef' = "nil" /\ UNCHANGED chanClosed
    /\ UNCHANGED <<metricQueue, workerVars, serverUp, outage, emitted,
                   delivered, panics>>

\* Shutdown: close(s.metricQueue).  Closing a closed channel panics and so
\* does closing a nil channel.
Shutdown ==
    /\ shutdownCalls < MaxShutdowns
    /\ shutdownCalls' = shutdownCalls + 1
    /\ \E ref \in VisibleRefs :
        IF ref = "chan" /\ ~chanClosed
          THEN chanClosed' = TRUE /\ UNCHANGED panics
          ELSE panics' = panics \cup {"shutdown"} /\ UNCHANGED chanClosed
    /\ UNCHANGED <<metricQueue, queueRef, workerVars, serverUp, outage, emitted,
                   delivered>>

-----------------------------------------------------------------------------
(* The worker: flushMetrics.                                               *)

\* goto WAIT: a new timer is started; the connection and the writer are left
\* as they are and are not used again.
GotoWait ==
    /\ state' = "BACKOFF"
    /\ waitC' = FALSE
    /\ outage' = TRUE

\* QUIT: s.metricQueue = nil and the function returns (the deferred
\* ticker.Stop runs).
GotoQuit ==
    /\ state' = "TERMINATED"
    /\ queueRef' = "nil"

\* Mutant of ConnectOk: the writer made for the first connection is kept for
\* the next ones, with what it holds.
ConnectOk_ReuseWriter ==
    /\ state = "CONNECTING"
    /\ serverUp
    /\ sock' = "alive"
    /\ state' = "STREAMING"
    /\ outage' = FALSE
    /\ UNCHANGED <<metricQueue, chanClosed, queueRef, buffered, tickerC, waitC,
                   serverUp, emitted, delivered, shutdownCalls, panics>>

\* CONNECT, net.Dial succeeds: a new bufio.Writer over the new connection.
ConnectOk ==
    /\ state = "CONNECTING"
    /\ serverUp
    /\ sock' = "alive"
    /\ buffered' = <<>>
    /\ state' = "STREAMING"
    /\ outage' = FALSE
    /\ UNCHANGED <<metricQueue, chanClosed, queueRef, tickerC, waitC, serverUp,
                   emitted, delivered, shutdownCalls, panics>>

\* Mutant of ConnectFail: the worker returns when the dial fails.
ConnectFail_Return ==
    /\ state = "CONNECTING"
    /\ ~serverUp
    /\ state' = "TERMINATED"
    /\ UNCHANGED <<metricQueue, chanClosed, queueRef, sock, buffered, tickerC,
                   waitC, serverUp, outage, emitted, delivered, shutdownCalls,
                   panics>>

\* CONNECT, net.Dial fails: goto WAIT.
ConnectFail ==
    /\ state = "CONNECTING"
    /\ ~serverUp
    /\ GotoWait
    /\ UNCHANGED <<metricQueue, chanClosed, queueRef, sock, buffered, tickerC,
                   serverUp, emitted, delivered, shutdownCalls, panics>>

\* Mutant of StreamRecv: a Write that finds the buffer full sends it and goes
\* on filling it without emptying it.
StreamRecv_NoReset ==
    /\ state = "STREAMING"
    /\ metricQueue # <<>>
    /\ metricQueue' = Tail(metricQueue)
    /\ IF Len(buffered) < BufCap
         THEN /\ buffered' = Append(buffered, Head(metricQueue))
              /\ UNCHANGED <<state, waitC, outage, emitted, delivered>>
         ELSE IF sock = "alive"
         THEN /\ delivered' = delivered \o buffered
              /\ buffered' = Append(Tail(buffered), Head(metricQueue))
              /\ UNCHANGED <<state, waitC, outage, emitted>>
         ELSE /\ GotoWait
              /\ emitted' = Lose(Range(buffered) \cup {Head(metricQueue)})
              /\ UNCHANGED <<buffered, delivered>>
    /\ UNCHANGED <<chanClosed, queueRef, sock, tickerC, serverUp,
                   shutdownCalls, panics>>

\* The streaming loop receives a line and writes it to the buffered writer.
\* bufio.Writer.Write keeps the line while there is room; with the buffer
\* full it first flushes the buffer to the connection, which fails on a dead
\* connection, and the failed Write sends the worker to WAIT.
StreamRecv ==
    /\ state = "STREAMING"
    /\ metricQueue # <<>>
    /\ metricQueue' = Tail(metricQueue)
    /\ IF Len(buffered) < BufCap
         THEN /\ buffered' = Append(buffered, Head(metricQueue))
              /\ UNCHANGED <<state, waitC, outage, emitted, delivered>>
         ELSE IF sock = "alive"
         THEN /\ delivered' = delivered \o buffered
              /\ buffered' = <<Head(metricQueue)>>
              /\ UNCHANGED <<state, waitC, outage, emitted>>
         ELSE /\ GotoWait
              /\ emitted' = Lose(Range(buffered) \cup {Head(metricQueue)})
              /\ UNCHANGED <<buffered, delivered>>
    /\ UNCHANGED <<chanClosed, queueRef, sock, tickerC, serverUp,
                   shutdownCalls, panics>>

\* Mutant of StreamClosed: the reference is cleared but the `break` leaves
\* only the select, and the loop goes on.
StreamClosed_Continue ==
    /\ state = "STREAMING"
    /\ metricQueue = <<>>
    /\ chanClosed
    /\ queueRef = "chan"
    /\ queueRef' = "nil"
    /\ UNCHANGED <<metricQueue, chanClosed, workerVars, serverUp, outage,
                   emitted, delivered, shutdownCalls, panics>>

\* The streaming loop receives from the closed and empty channel: goto QUIT.
StreamClosed ==
    /\ state = "STREAMING"
    /\ metricQueue = <<>>
    /\ chanClosed
    /\ GotoQuit
    /\ UNCHANGED <<metricQueue, chanClosed, sock, buffered, tickerC, waitC,
                   serverUp, outage, emitted, delivered,
                   shutdownCalls, panics>>

\* Mutant of StreamFlush: the buffer is written out but not emptied.
StreamFlush_NoReset ==
    /\ state = "STREAMING"
    /\ tickerC
    /\ tickerC' = FALSE
    /\ IF buffered = <<>>
         THEN UNCHANGED <<state, waitC, outage, emitted, delivered>>
         ELSE IF sock = "alive"
         THEN /\ delivered' = delivered \o buffered
              /\ UNCHANGED <<state, waitC, outage, emitted>>
         ELSE /\ GotoWait
              /\ emitted' = Lose(Range(buffered))
              /\ UNCHANGED delivered
    /\ UNCHANGED <<metricQueue, chanClosed, queueRef, sock, buffered, serverUp,
                   shutdownCalls, panics>>

\* The streaming loop receives a tick: buffered.Flush().  Flushing an empty
\* buffer writes nothing and succeeds; otherwise the buffer goes to the
\* connection, and a failure sends the worker to WAIT.
StreamFlush ==
    /\ state = "STREAMING"
    /\ tickerC
    /\ tickerC' = FALSE
    /\ IF buffered = <<>>
         THEN UNCHANGED <<state, waitC, outage, buffered, emitted, delivered>>
         ELSE IF sock = "alive"
         THEN /\ delivered' = delivered \o buffered
              /\ buffered' = <<>>
              /\ UNCHANGED <<state, waitC, outage, emitted>>
         ELSE /\ GotoWait
              /\ emitted' = Lose(Range(buffered))
              /\ UNCHANGED <<buffered, delivered>>
    /\ UNCHANGED <<metricQueue, chanClosed, queueRef, sock, serverUp,
                   shutdownCalls, panics>>

\* Mutant of WaitRecv: time.After is called in the select, so that every line
\* received starts the five seconds again.
WaitRecv_RestartWait ==
    /\ state = "BACKOFF"
    /\ metricQueue # <<>>
    /\ metricQueue' = Tail(metricQueue)
    /\ emitted' = [emitted EXCEPT ![Head(metricQueue)].fate = "drained"]
    /\ waitC' = FALSE
    /\ UNCHANGED <<chanClosed, queueRef, state, sock, buffered, tickerC,
                   serverUp, outage, delivered, shutdownCalls, panics>>

\* Mutant of WaitRecv: the line read during the wait is pushed back on the
\* queue so as not to lose it.
WaitRecv_PutBack ==
    /\ state = "BACKOFF"
    /\ metricQueue # <<>>
    /\ metricQueue' = Append(Tail(metricQueue), Head(metricQueue))
    /\ emitted' = [emitted EXCEPT ![Head(metricQueue)].fate = "drained"]
    /\ UNCHANGED <<chanClosed, queueRef, workerVars, serverUp, outage,
                   delivered, shutdownCalls, panics>>

\* The wait loop receives a line and drops it.
WaitRecv ==
    /\ state = "BACKOFF"
    /\ metricQueue # <<>>
    /\ metricQueue' = Tail(metricQueue)
    /\ emitted' = [emitted EXCEPT ![Head(metricQueue)].fate = "drained"]
    /\ UNCHANGED <<chanClosed, queueRef, workerVars, serverUp, outage,
                   delivered, shutdownCalls, panics>>

\* Mutant of WaitClosed: the wait loop does not look at `ok` and goes on
\* waiting.
WaitClosed_KeepWaiting ==
    /\ state = "BACKOFF"
    /\ metricQueue = <<>>
    /\ chanClosed
    /\ UNCHANGED vars

\* The wait loop receives from the closed and empty channel: goto QUIT.
WaitClosed ==
    /\ state = "BACKOFF"
    /\ metricQueue = <<>>
    /\ chanClosed
    /\ GotoQuit
    /\ UNCHANGED <<metricQueue, chanClosed, sock, buffered, tickerC, waitC,
                   serverUp, outage, emitted, delivered,
                   shutdownCalls, panics>>

\* Mutant of WaitExpired: after the wait the worker goes back to the streaming
\* loop, on the connection it has.
WaitExpired_Stream ==
    /\ state = "BACKOFF"
    /\ waitC
    /\ state' = "STREAMING"
    /\ waitC' = FALSE
    /\ UNCHANGED <<metricQueue, chanClosed, queueRef, sock, buffered, tickerC,
                   serverUp, outage, emitted, delivered, shutdownCalls, panics>>

\* The wait loop receives from `wait`: goto CONNECT.
WaitExpired ==
    /\ state = "BACKOFF"
    /\ waitC
    /\ state' = "CONNECTING"
    /\ waitC' = FALSE
    /\ UNCHANGED <<metricQueue, chanClosed, queueRef, sock, buffered, tickerC,
                   serverUp, outage, emitted, delivered,
                   shutdownCalls, panics>>

-----------------------------------------------------------------------------
(* Time and the network.                                                   *)

\* flushInterval has passed: the ticker puts a tick in its channel unless one
\* is pending there.  The ticker runs from the worker's start to its return.
TickerFires ==
    /\ state # "TERMINATED"
    /\ ~tickerC
    /\ tickerC' = TRUE
    /\ emitted' = Retag({"streaming"}, "due")
    /\ UNCHANGED <<metricQueue, chanClosed, queueRef, state, sock, buffered,
                   waitC, serverUp, outage, delivered, shutdownCalls, panics>>

\* The five seconds of time.After have passed.
WaitTimerFires ==
    /\ state = "BACKOFF"
    /\ ~waitC
    /\ waitC' = TRUE
    /\ UNCHANGED <<metricQueue, chanClosed, queueRef, state, sock, buffered,
                   tickerC, serverUp, outage, emitted, delivered,
                   shutdownCalls, panics>>

\* The server goes away: it accepts no connection and an open one is dead.
ServerDown ==
    /\ serverUp
    /\ serverUp' = FALSE
    /\ sock' = IF sock = "alive" THEN "dead" ELSE sock
    /\ emitted' = Retag({"streaming", "due"}, "plain")
    /\ UNCHANGED <<metricQueue, chanClosed, queueRef, state, buffered, tickerC,
                   waitC, outage, delivered, shutdownCalls, panics>>

\* The server comes back; a connection that died stays dead.
ServerUp ==
    /\ ~serverUp
    /\ serverUp' = TRUE
    /\ UNCHANGED <<metricQueue, chanClosed, queueRef, state, sock, buffered,
                   tickerC, waitC, outage, emitted, delivered,
                   shutdownCalls, panics>>

\* net.Dial returns, one way or the other.
Connect == ConnectOk \/ ConnectFail

\* The worker's select takes the case of the queue.
QueueCase == StreamRecv \/ StreamClosed \/ WaitRecv \/ WaitClosed

Next ==
    \/ Emit /\ UNCHANGED <<fmtVars, urlVars>>
    \/ Shutdown /\ UNCHANGED <<fmtVars, urlVars>>
    \/ ConnectOk /\ UNCHANGED <<fmtVars, urlVars>>
    \/ ConnectFail /\ UNCHANGED <<fmtVars, urlVars>>
    \/ StreamRecv /\ UNCHANGED <<fmtVars, urlVars>>
    \/ StreamClosed /\ UNCHANGED <<fmtVars, urlVars>>
    \/ StreamFlush /\ UNCHANGED <<fmtVars, urlVars>>
    \/ WaitRecv /\ UNCHANGED <<fmtVars, urlVars>>
    \/ WaitClosed /\ UNCHANGED <<fmtVars, urlVars>>
    \/ WaitExpired /\ UNCHANGED <<fmtVars, urlVars>>
    \/ TickerFires /\ UNCHANGED <<fmtVars, urlVars>>
    \/ WaitTimerFires /\ UNCHANGED <<fmtVars, urlVars>>
    \/ ServerDown /\ UNCHANGED <<fmtVars, urlVars>>
    \/ ServerUp /\ UNCHANGED <<fmtVars, urlVars>>

Spec == Init /\ [][Next]_vars


\* Scheduling: a dial returns; time passes, so a started timer fires; and the
\* select of either loop, which picks at random among its ready cases, takes
\* infinitely often each case that is ready infinitely often.
FairSpec ==
    /\ Spec
    /\ WF_sinkVars(Connect)
    /\ WF_sinkVars(WaitTimerFires)
    /\ SF_sinkVars(QueueCase)
    /\ SF_sinkVars(WaitExpired)


-----------------------------------------------------------------------------
(* The text of a line.  A string is a sequence of one-character strings.   *)

\* Labels a with-labels operation appends to the key, at most.
MaxLabels == 2
\* Segments of a key, at most.
MaxKeyLen == 2
\* Capacity of the caller's key slice beyond its length, at most.
MaxSpare == 1
\* Digits "%f" prints after the decimal point.
FracDigits == 6

\* One unit of a value: values are counted in units of 10^-FracDigits.
Unit == 10 ^ FracDigits

FooBar == <<"f", "o", "o", " ", "b", "a", "r">>
BazQux == <<"b", "a", "z", ":", "q", "u", "x">>
Req    == <<"r", "e", "q">>

\* The key segments the calls are made with.
Segments == {<<>>, <<"a">>, FooBar, BazQux, Req}

\* The labels the calls are made with (flattenKeyLabels reads Value only).
Labels ==
    {[Name |-> <<"c", "o", "d", "e">>, Value |-> <<"2", "0", "0">>],
     [Name |-> <<"h">>,                Value |-> <<"x", " ", ":", "y">>]}

\* The values the calls are made with: 0, 1, 3.5 and -0.25.
Values == {0, Unit, 3 * Unit + Unit \div 2, 0 - Unit \div 4}

SeqsUpTo(S, n) == UNION {[1..k -> S] : k \in 0..n}

PlainOps  == {"SetGauge", "EmitKey", "IncrCounter", "AddSample"}
LabelOps  == {"SetGaugeWithLabels", "IncrCounterWithLabels", "AddSampleWithLabels"}

\* strings.Join(parts, sep).
RECURSIVE Join(_, _)
Join(parts, sep) ==
    IF parts = <<>> THEN <<>>
    ELSE IF Len(parts) = 1 THEN parts[1]
    ELSE parts[1] \o <<sep>> \o Join(Tail(parts), sep)

\* The function flattenKey gives to strings.Map.
MapRune(r) == IF r = ":" \/ r = " " THEN "_" ELSE r

\* Mutant of flattenKey: only spaces are replaced.
flattenKey_SpacesOnly(parts) ==
    LET joined == Join(parts, ".")
    IN  [i \in 1..Len(joined) |-> IF joined[i] = " " THEN "_" ELSE joined[i]]

\* flattenKey: join with "." and replace every ':' and ' ' by '_'.
flattenKey(parts) ==
    LET joined == Join(parts, ".")
    IN  [i \in 1..Len(joined) |-> MapRune(joined[i])]

DigitChar(d) == <<"0", "1", "2", "3", "4", "5", "6", "7", "8", "9">>[d + 1]

\* The decimal digits of a natural number.
RECURSIVE NatText(_)
NatText(n) ==
    IF n < 10 THEN <<DigitChar(n)>>
    ELSE NatText(n \div 10) \o <<DigitChar(n % 10)>>

\* The last w decimal digits of n, with leading zeros.
RECURSIVE PadText(_, _)
PadText(n, w) ==
    IF w = 0 THEN <<>>
    ELSE PadText(n \div 10, w - 1) \o <<DigitChar(n % 10)>>

\* What the verb %f prints for a value: sign, integer part, '.', FracDigits
\* digits.
FormatF(v) ==
    LET a == IF v < 0 THEN 0 - v ELSE v
    IN  (IF v < 0 THEN <<"-">> ELSE <<>>)
            \o NatText(a \div Unit) \o <<".">> \o PadText(a % Unit, FracDigits)

\* Mutant of Suffix: samples are sent as "|s".
Suffix_SampleAsS(op) ==
    IF op \in {"SetGauge", "SetGaugeWithLabels"} THEN <<"g">>
    ELSE IF op = "EmitKey" THEN <<"k", "v">>
    ELSE IF op \in {"IncrCounter", "IncrCounterWithLabels"} THEN <<"c">>
    ELSE <<"s">>

\* The type suffix in the format string of each emit operation.
Suffix(op) ==
    IF op \in {"SetGauge", "SetGaugeWithLabels"} THEN <<"g">>
    ELSE IF op = "EmitKey" THEN <<"k", "v">>
    ELSE IF op \in {"IncrCounter", "IncrCounterWithLabels"} THEN <<"c">>
    ELSE <<"m", "s">>

\* fmt.Sprintf("%s:%f|<suffix>\n", flatKey, val).
Sprintf(op, flatKey, val) ==
    flatKey \o <<":">> \o FormatF(val) \o <<"|">> \o Suffix(op) \o <<"\n">>

\* A key slice of the caller: its segments followed by the unused capacity of
\* its backing array.
KeySlices ==
    {[arr |-> segs \o [i \in 1..spare |-> <<>>], len |-> Len(segs)] :
        segs \in SeqsUpTo(Segments, MaxKeyLen), spare \in 0..MaxSpare}

\* An emit call at its start: `parts` is the parameter, a slice that shares
\* the caller's backing array; n counts the labels appended so far.
NewCall(op, val, labels) ==
    [op |-> op, val |-> val, labels |-> labels, pc |-> "run", n |-> 0,
     parts |-> [shared |-> TRUE, arr |-> <<>>, len |-> key0.len],
     flat |-> <<>>, line |-> <<>>]

\* The arguments of a call: the operations without labels have none.
CallArgs ==
    {<<op, val, <<>>>> : op \in PlainOps, val \in Values}
        \cup {<<op, val, ls>> : op \in LabelOps, val \in Values,
                                 ls \in SeqsUpTo(Labels, MaxLabels)}

\* One call on a key slice.
FormatInit ==
    /\ SinkInit /\ NoURL
    /\ key0 \in KeySlices
    /\ keyArr = key0.arr
    /\ \E a \in CallArgs : calls = <<NewCall(a[1], a[2], a[3])>>
    /\ pushed = <<>>

\* Two with-labels calls that are given the same key slice, one label each.
AliasInit ==
    /\ SinkInit /\ NoURL
    /\ key0 \in KeySlices
    /\ keyArr = key0.arr
    /\ \E o1, o2 \in LabelOps, l1, l2 \in Labels :
          calls = <<NewCall(o1, Unit, <<l1>>), NewCall(o2, Unit, <<l2>>)>>
    /\ pushed = <<>>

\* The elements of a call's local slice `parts`.
Elems(p) == IF p.shared THEN SubSeq(keyArr, 1, p.len) ELSE p.arr

\* flattenKeyLabels, one round of its loop: parts = append(parts, label.Value).
\* With capacity left the element is stored in the backing array the slice
\* has; otherwise the elements are copied to a new array.
AppendLabel(c) ==
    LET call == calls[c]
        p    == call.parts
        v    == call.labels[call.n + 1].Value
    IN  /\ call.pc = "run"
        /\ call.n < Len(call.labels)
        /\ IF p.shared /\ p.len < Len(keyArr)
           THEN /\ keyArr' = [keyArr EXCEPT ![p.len + 1] = v]
                /\ calls' = [calls EXCEPT ![c].n = call.n + 1,
                                          ![c].parts.len = p.len + 1]
           ELSE /\ keyArr' = keyArr
                /\ calls' = [calls EXCEPT ![c].n = call.n + 1,
                                          ![c].parts = [shared |-> FALSE,
                                                        arr |-> Append(Elems(p), v),
                                                        len |-> p.len + 1]]
        /\ UNCHANGED <<key0, pushed>>

\* The rest of an emit: flattenKey of the slice, Sprintf, pushMetric.
FormatPush(c) ==
    LET call == calls[c]
        flat == flattenKey(Elems(call.parts))
        line == Sprintf(call.op, flat, call.val)
    IN  /\ call.pc = "run"
        /\ call.n = Len(call.labels)
        /\ calls' = [calls EXCEPT ![c].pc = "done", ![c].flat = flat,
                                  ![c].line = line]
        /\ pushed' = Append(pushed, line)
        /\ UNCHANGED <<key0, keyArr>>

FormatNext ==
    \/ \E c \in DOMAIN calls : AppendLabel(c) /\ UNCHANGED <<sinkVars, urlVars>>
    \/ \E c \in DOMAIN calls : FormatPush(c) /\ UNCHANGED <<sinkVars, urlVars>>

\* One emit call, run to its end.
FormatSpec == FormatInit /\ [][FormatNext]_vars

\* Two emit calls on one key slice, interleaved in any way.
AliasSpec == AliasInit /\ [][FormatNext]_vars

-----------------------------------------------------------------------------
(* The endpoint factory.                                                   *)

\* The schemes the factory is called with: the three registered ones, an
\* unregistered one and none.
Schemes == {"statsd", "statsite", "inmem", "http", ""}

\* The texts a query parameter is given.
ParamTexts ==
    {<<"1", "0", "s">>, <<"1", "m">>, <<"0">>, <<"1", "0">>, <<"a", "b", "c">>, <<>>}

\* A query parameter: absent, or present with a text.
Params ==
    {[present |-> FALSE, text |-> <<>>]}
        \cup {[present |-> TRUE, text |-> t] : t \in ParamTexts}

ParamNames == {"interval", "retain", "duration"}

\* The URL strings: one url.Parse rejects, or a scheme and a query.
URLs ==
    {[wellFormed |-> w, scheme |-> s, query |-> q] :
        w \in BOOLEAN, s \in Schemes, q \in [ParamNames -> Params]}

\* url.Values.Get: the text of the parameter, "" when it is absent.
Get(query, name) == IF query[name].present THEN query[name].text ELSE <<>>

IsDigit(ch) == ch \in {"0", "1", "2", "3", "4", "5", "6", "7", "8", "9"}

\* time.ParseDuration returns no error: the text is "0", or digits followed
\* by a unit (of the grammar of durations, one number and the units s, m, h).
ParseDurationOk(s) ==
    \/ s = <<"0">>
    \/ /\ Len(s) >= 2
       /\ s[Len(s)] \in {"s", "m", "h"}
       /\ \A i \in 1..(Len(s) - 1) : IsDigit(s[i])

\* What a factory function returns: a sink and a nil error, or nil and an error.
Ok(sink)  == [sink |-> sink, err |-> "nil"]
Fail(err) == [sink |-> "nil", err |-> err]

\* NewInmemSinkFromURL: the possible results.
NewInmemSinkFromURL(u) ==
    IF ~ParseDurationOk(Get(u.query, "interval")) THEN {Fail("Bad 'interval' param")}
    ELSE IF ~ParseDurationOk(Get(u.query, "retain")) THEN {Fail("Bad 'retain' param")}
    ELSE {Ok("InmemSink")}

\* NewStatsiteSinkFromURL: the sink's constructor returns no error.
NewStatsiteSinkFromURL(u) == {Ok("StatsiteSink")}

\* NewStatsdSinkFromURL: whatever the constructor of the statsd sink returns.
NewStatsdSinkFromURL(u) == {Ok("StatsdSink"), Fail("statsd")}

\* The schemes of sinkRegistry.
sinkRegistry == {"statsd", "statsite", "inmem"}

\* The call of the function registered for a scheme.
sinkURLFactoryFunc(scheme, u) ==
    CASE scheme = "statsd"   -> NewStatsdSinkFromURL(u)
      [] scheme = "statsite" -> NewStatsiteSinkFromURL(u)
      [] scheme = "inmem"    -> NewInmemSinkFromURL(u)

\* NewSinkFromURL.
NewSinkFromURL ==
    /\ result = <<>>
    /\ \E r \in (IF ~url.wellFormed THEN {Fail("parse")}
                 ELSE IF url.scheme \notin sinkRegistry
                      THEN {Fail("unrecognized sink name")}
                      ELSE sinkURLFactoryFunc(url.scheme, url)) :
          result' = <<r>>
    /\ UNCHANGED url

FactoryInit ==
    /\ SinkInit /\ NoCalls
    /\ url \in URLs
    /\ result = <<>>

FactoryNext ==
    \/ NewSinkFromURL /\ UNCHANGED <<sinkVars, fmtVars>>

\* One call of NewSinkFromURL.
FactorySpec == FactoryInit /\ [][FactoryNext]_vars

-----------------------------------------------------------------------------
(* Properties.                                                             *)

IsAscending(s) == \A i, j \in 1..Len(s) : i < j => s[i] < s[j]

\* The lines the worker or the server holds.
Taken == Range(buffered) \cup Range(delivered)

\* C1: on a Sink that has not been shut down an emit completes without
\* waiting, whatever the occupancy of the queue and the state of the worker:
\* its push is always enabled, and no emit has panicked.
C1_EmitNeverBlocks ==
    ~chanClosed => (ENABLED pushMetric) /\ "emit" \notin panics

\* An emit has completed, dropping its line, with the queue at capacity and
\* the worker in BACKOFF, and the next one can complete too.
C1_Witness ==
    /\ ~chanClosed
    /\ Len(metricQueue) = QueueCap
    /\ state = "BACKOFF"
    /\ Len(emitted) > QueueCap
    /\ emitted[Len(emitted)].fate = "dropped"
    /\ ENABLED pushMetric

\* C2: the queue never holds more lines than its capacity.
C2_QueueBounded == Len(metricQueue) <= QueueCap

\* The queue is at capacity and an emit has found it so.
C2_Witness ==
    /\ Len(metricQueue) = QueueCap
    /\ \E i \in 1..Len(emitted) : emitted[i].fate = "dropped"
    /\ state = "STREAMING"

\* C3: an emit on an open queue at capacity leaves the queue and the worker
\* as they are, and its line never reaches the worker or the server; below
\* capacity it appends its line at the tail of the queue and changes nothing
\* else.
C3_EmitFrame ==
    /\ [][(Len(emitted') = Len(emitted) + 1 /\ ~chanClosed) =>
            /\ IF Len(metricQueue) = QueueCap
                 THEN /\ metricQueue' = metricQueue
                      /\ emitted'[NextLine].fate = "dropped"
                 ELSE /\ metricQueue' = Append(metricQueue, NextLine)
                      /\ emitted'[NextLine].fate = "queued"
            /\ UNCHANGED <<chanClosed, queueRef, workerVars, serverUp, outage,
                           delivered, shutdownCalls, panics>>]_vars
    /\ [](\A i \in 1..Len(emitted) :
            emitted[i].fate = "dropped" => i \notin Taken \cup Range(metricQueue))

\* A line was dropped at capacity while the lines queued before it went on to
\* the server.
C3_Witness ==
    /\ Len(emitted) > QueueCap
    /\ emitted[QueueCap + 1].fate = "dropped"
    /\ \A i \in 1..QueueCap : i \in Range(delivered)
    /\ ~chanClosed

\* C4 as stated: the lines enqueued while the worker streams to a reachable
\* server arrive in the order of their enqueue, and each has arrived once the
\* worker has handled the first firing of the flush timer after its enqueue.
C4_Original ==
    /\ IsAscending(delivered)
    /\ (state = "STREAMING" /\ ~tickerC) =>
          \A i \in 1..Len(emitted) :
              emitted[i].tag = "due" => i \in Range(delivered)

\* C4, amended: the lines arrive in the order of their enqueue, and each
\* firing of the flush timer that the worker handles on a live connection
\* delivers every line the worker had written to the buffered writer; a line
\* still in the queue then waits for a later flush.
C4_Amended ==
    /\ [](IsAscending(delivered))
    /\ [][(state = "STREAMING" /\ tickerC /\ ~tickerC' /\ sock = "alive") =>
            /\ delivered' = delivered \o buffered
            /\ buffered' = <<>>
            /\ metricQueue' = metricQueue
            /\ state' = "STREAMING"]_vars

\* Two lines, each enqueued while the worker streamed over the live
\* connection and each overtaken by a firing of the flush timer, have arrived
\* in the order of their enqueue.
C4_Witness ==
    /\ state = "STREAMING" /\ sock = "alive"
    /\ Len(delivered) >= 2
    /\ \A i \in Range(delivered) : emitted[i].tag = "due"
    /\ IsAscending(delivered)

\* C5 as stated: once Shutdown has returned, nothing more is written to a
\* transport.
C5_Original == [][chanClosed => delivered' = delivered]_vars

\* C5, amended: once the worker has observed the closed queue (it has
\* released the queue reference and is TERMINATED), nothing more is written
\* or flushed, and what the buffered writer holds is never sent; before that,
\* after Shutdown has returned, the worker still writes and flushes.
C5_Amended ==
    [][(state = "TERMINATED" \/ queueRef = "nil") =>
            /\ delivered' = delivered
            /\ buffered' = buffered
            /\ state' = state]_vars

\* The worker has terminated with lines on the server and a line left in
\* the buffered writer.
C5_Witness ==
    /\ state = "TERMINATED"
    /\ queueRef = "nil"
    /\ delivered # <<>>
    /\ buffered # <<>>

\* C6 as stated: no emit called after Shutdown has returned crashes its
\* caller (before Shutdown no emit panics: C1).
C6_EmitAfterShutdownSafe == "emit" \notin panics

\* C7: a second call to Shutdown is fatal or a no-op: it panics, and the
\* queue, the queue reference, the worker and the history are what they
\* were, whether or not the worker has terminated.
C7_SecondShutdown ==
    [][(shutdownCalls >= 1 /\ shutdownCalls' = shutdownCalls + 1) =>
            /\ "shutdown" \in panics'
            /\ UNCHANGED <<metricQueue, chanClosed, queueRef, workerVars,
                           emitted, delivered>>]_vars

\* Shutdown has been called twice and the second call has panicked; the
\* worker has terminated and cleared the reference.
C7_Witness ==
    /\ shutdownCalls = 2
    /\ "shutdown" \in panics
    /\ state = "TERMINATED"
    /\ queueRef = "nil"
    /\ chanClosed

\* C8: once Shutdown has closed the queue the worker reaches TERMINATED,
\* having taken every line of the queue.
C8_Terminates ==
    /\ chanClosed ~> (state = "TERMINATED" /\ metricQueue = <<>>)
    /\ [](state = "TERMINATED" => metricQueue = <<>> /\ chanClosed)

\* The worker has terminated after a failure, having drained one queued line
\* and delivered another.
C8_Witness ==
    /\ state = "TERMINATED"
    /\ outage
    /\ \E i \in 1..Len(emitted) : emitted[i].fate = "drained"
    /\ \E i \in 1..Len(emitted) : i \in Range(delivered)

\* C9: while Shutdown has not been called the worker, after a failure, dials
\* again, and it does not end.
C9_KeepsRetrying ==
    /\ (state = "BACKOFF" /\ ~chanClosed) ~> (state = "CONNECTING" \/ chanClosed)
    /\ [](state = "TERMINATED" => chanClosed)

\* The worker dials again after a streaming session has failed.
C9_Witness ==
    /\ state = "CONNECTING"
    /\ outage
    /\ sock = "dead"
    /\ ~chanClosed

\* C10 as stated: no line enqueued during an outage is ever delivered.
C10_Original ==
    \A i \in Range(delivered) : emitted[i].tag # "outage"

\* C10, amended: no line the worker took from the queue during BACKOFF is
\* ever written, buffered or queued again; a line enqueued during the outage
\* and still in the queue when the worker dials again is delivered after the
\* connect.
C10_Amended ==
    \A i \in 1..Len(emitted) :
        emitted[i].fate = "drained" => i \notin Taken \cup Range(metricQueue)

\* The worker streams again after an outage in which it drained one line,
\* and a line enqueued during that outage has been delivered.
C10_Witness ==
    /\ state = "STREAMING"
    /\ \E i \in 1..Len(emitted) : emitted[i].fate = "drained"
    /\ \E i \in Range(delivered) : emitted[i].tag = "outage"

\* C11 as stated: once the worker is TERMINATED the Sink holds no live
\* resource: no connection the worker opened is still open, the flush timer
\* is stopped and the queue reference is released.
C11_NoLiveResources ==
    state = "TERMINATED" =>
        /\ sock = "none"
        /\ queueRef = "nil"
        /\ ~ENABLED TickerFires

NoDup(s) == \A i, j \in 1..Len(s) : i # j => s[i] # s[j]

\* C12: a line accepted into the queue is taken by the worker at most once
\* (a receive removes the head of the queue, and a line taken is in the queue
\* no more) and written to a transport at most once, whatever failures and
\* reconnects happen; what a write or a flush sends is the buffered writer's
\* content, which holds the lines in the order they were dequeued.
C12_AtMostOnce ==
    /\ [](/\ NoDup(metricQueue \o buffered \o delivered)
          /\ \A i \in 1..Len(emitted) :
                emitted[i].fate \in {"drained", "lost"} =>
                    i \notin Range(metricQueue) \cup Range(delivered))
    /\ [][Len(metricQueue') < Len(metricQueue) =>
            /\ metricQueue' = Tail(metricQueue)
            /\ (state' = "STREAMING" =>
                    \/ buffered' = Append(buffered, Head(metricQueue))
                    \/ buffered' = <<Head(metricQueue)>>)]_vars
    /\ [][delivered' # delivered =>
            /\ delivered' = delivered \o buffered
            /\ state = "STREAMING"]_vars

\* Over a failure and a reconnect one line was lost with the failed writer,
\* one was drained during the wait and one was delivered.
C12_Witness ==
    /\ \E i \in 1..Len(emitted) : emitted[i].fate = "lost"
    /\ \E i \in 1..Len(emitted) : emitted[i].fate = "drained"
    /\ delivered # <<>>

\* A step of a caller: an emit or a call to Shutdown; each reads the field
\* s.metricQueue.
CallerStep ==
    \/ Len(emitted') > Len(emitted)
    \/ panics' # panics
    \/ shutdownCalls' # shutdownCalls

\* C13 as stated: every access of a caller to the field s.metricQueue is
\* ordered with the worker's write of it by the queue's synchronisation.  The
\* channel orders a caller's send or close before the receive that follows
\* it, hence before the write at QUIT; nothing orders an access after the
\* write, so no caller may read the field once the worker has written it.
C13_NoDataRace == [][CallerStep => queueRef # "nil"]_vars

\* C17: the worker starts in CONNECTING and changes state only from
\* CONNECTING to STREAMING (the dial succeeded) or BACKOFF (it failed), from
\* STREAMING to BACKOFF (a write or flush failed), from STREAMING or BACKOFF
\* to TERMINATED (the closed queue was received), and from BACKOFF to
\* CONNECTING (the wait expired).
C17_Transitions ==
    /\ state = "CONNECTING"
    /\ [][state' # state =>
            \/ state = "CONNECTING" /\ state' = "STREAMING" /\ serverUp
            \/ state = "CONNECTING" /\ state' = "BACKOFF" /\ ~serverUp
            \/ state = "STREAMING" /\ state' = "BACKOFF" /\ sock = "dead"
            \/ /\ state \in {"STREAMING", "BACKOFF"}
               /\ state' = "TERMINATED"
               /\ chanClosed /\ shutdownCalls >= 1 /\ metricQueue = <<>>
            \/ state = "BACKOFF" /\ state' = "CONNECTING" /\ waitC]_vars

\* The worker has terminated after a streaming session that failed.
C17_Witness ==
    /\ state = "TERMINATED"
    /\ sock = "dead"
    /\ \E i \in 1..Len(emitted) : emitted[i].fate = "lost"

\* C18: a line the worker takes from the queue during BACKOFF goes nowhere:
\* the step leaves the writer, the transport and the timer as they are and
\* the worker in BACKOFF, and the line is never buffered or written later;
\* the worker leaves BACKOFF for CONNECTING only with the timer fired.
C18_DrainDiscards ==
    /\ [][(state = "BACKOFF" /\ Len(metricQueue') < Len(metricQueue)) =>
            /\ metricQueue' = Tail(metricQueue)
            /\ waitC' = waitC
            /\ UNCHANGED <<state, sock, buffered, delivered>>]_vars
    /\ [][(state = "BACKOFF" /\ state' = "CONNECTING") => waitC]_vars
    /\ [](\A i \in 1..Len(emitted) : emitted[i].fate = "drained" => i \notin Taken)

\* The wait has expired after the worker had drained a line, and the worker
\* dials again.
C18_Witness ==
    /\ state = "CONNECTING"
    /\ ~waitC
    /\ \E i \in 1..Len(emitted) : emitted[i].fate = "drained"

\* C19: a successful connect leaves the worker with an empty writer over a
\* live connection, and no line lost with a failed writer (the line whose
\* write failed, the lines the writer held when a write or flush failed) is
\* in a later writer or is ever written.
C19_FreshWriter ==
    /\ [][(state = "CONNECTING" /\ state' = "STREAMING") =>
            buffered' = <<>> /\ sock' = "alive"]_vars
    /\ [](\A i \in 1..Len(emitted) :
            emitted[i].fate = "lost" =>
                /\ i \notin Range(delivered)
                /\ state = "STREAMING" => i \notin Range(buffered))

\* After a failure that lost a line the worker streams again and a later
\* line has been delivered.
C19_Witness ==
    /\ state = "STREAMING"
    /\ \E i \in 1..Len(emitted) :
          /\ emitted[i].fate = "lost"
          /\ \E j \in Range(delivered) : j > i

-----------------------------------------------------------------------------
(* Properties of the text of a line.                                       *)

\* The key the caller passed and the values of the labels, in order.
KeySegs == SubSeq(key0.arr, 1, key0.len)
LabelValues(ls) == [i \in 1..Len(ls) |-> ls[i].Value]

\* Length of the segments s[1..k] joined with one separator between them.
RECURSIVE JoinedLen(_, _)
JoinedLen(s, k) ==
    IF k = 0 THEN 0
    ELSE JoinedLen(s, k - 1) + Len(s[k]) + (IF k > 1 THEN 1 ELSE 0)

\* text is the segments of s in order with "." between neighbours, where every
\* ':' and every ' ' of a segment reads '_' and every other character is
\* itself.
IsFlatOf(text, s) ==
    /\ Len(text) = JoinedLen(s, Len(s))
    /\ \A k \in 1..Len(s) :
          /\ k > 1 => text[JoinedLen(s, k - 1) + 1] = "."
          /\ \A i \in 1..Len(s[k]) :
                LET ch == text[JoinedLen(s, k) - Len(s[k]) + i]
                IN  IF s[k][i] \in {":", " "} THEN ch = "_" ELSE ch = s[k][i]

FooBarBazQuxFlat ==
    <<"f", "o", "o", "_", "b", "a", "r", ".", "b", "a", "z", "_", "q", "u", "x">>

\* C14: for every key and every label sequence the flattened key of a
\* finished call is the key's segments followed by the label values, joined
\* with '.', with every ':' and ' ' replaced by '_' and nothing else changed;
\* it holds no ':' and no ' '; and ["foo bar", "baz:qux"] gives
\* "foo_bar.baz_qux".
C14_Flatten ==
    \A c \in DOMAIN calls :
        calls[c].pc = "done" =>
            /\ IsFlatOf(calls[c].flat, KeySegs \o LabelValues(calls[c].labels))
            /\ \A i \in 1..Len(calls[c].flat) : calls[c].flat[i] \notin {":", " "}
            /\ (KeySegs = <<FooBar, BazQux>> /\ calls[c].labels = <<>>)
                  => calls[c].flat = FooBarBazQuxFlat

\* Reached: a finished call with two labels on the key ["foo bar", "baz:qux"],
\* the first label stored in the caller's array and the second in a new one.
C14_Witness ==
    /\ calls # <<>>
    /\ calls[1].pc = "done"
    /\ KeySegs = <<FooBar, BazQux>>
    /\ Len(calls[1].labels) = 2
    /\ calls[1].labels[1] # calls[1].labels[2]
    /\ Len(key0.arr) > key0.len
    /\ ~calls[1].parts.shared

\* The text "%f" gives for the values the calls are made with.
ValueText(v) ==
    CASE v = 0 -> <<"0", ".", "0", "0", "0", "0", "0", "0">>
      [] v = Unit -> <<"1", ".", "0", "0", "0", "0", "0", "0">>
      [] v = 3 * Unit + Unit \div 2 -> <<"3", ".", "5", "0", "0", "0", "0", "0">>
      [] v = 0 - Unit \div 4 -> <<"-", "0", ".", "2", "5", "0", "0", "0", "0">>

\* The type suffix the specification gives per kind of operation.
KindSuffix(op) ==
    CASE op \in {"SetGauge", "SetGaugeWithLabels"} -> <<"g">>
      [] op \in {"IncrCounter", "IncrCounterWithLabels"} -> <<"c">>
      [] op \in {"AddSample", "AddSampleWithLabels"} -> <<"m", "s">>
      [] op = "EmitKey" -> <<"k", "v">>

Req200Line ==
    <<"r", "e", "q", ".", "2", "0", "0", ":", "1", ".", "0", "0", "0", "0", "0", "0",
      "|", "c", "\n">>

\* C15: a finished emit has handed exactly one line to the queue; the line is
\* the flattened key, ':', the value with six decimals, '|', the suffix of the
\* operation's kind (g, c, ms, kv) and a newline; the first ':' of the line is
\* the separator, because the flattened key holds none; and incrementing the
\* counter ["req"] by 1 with a label of value "200" gives
\* "req.200:1.000000|c\n".
C15_LineFormat ==
    \A c \in DOMAIN calls :
        LET call == calls[c]
            segs == KeySegs \o LabelValues(call.labels)
            sep  == JoinedLen(segs, Len(segs)) + 1
            rest == ValueText(call.val) \o <<"|">> \o KindSuffix(call.op) \o <<"\n">>
        IN  /\ call.pc = "run" => pushed = <<>>
            /\ call.pc = "done" =>
                /\ pushed = <<call.line>>
                /\ Len(call.line) = sep + Len(rest)
                /\ IsFlatOf(SubSeq(call.line, 1, sep - 1), segs)
                /\ call.line[sep] = ":"
                /\ \A i \in 1..(sep - 1) : call.line[i] # ":"
                /\ SubSeq(call.line, sep + 1, Len(call.line)) = rest
                /\ (/\ call.op = "IncrCounterWithLabels"
                    /\ KeySegs = <<Req>>
                    /\ call.val = Unit
                    /\ LabelValues(call.labels) = <<<<"2", "0", "0">>>>)
                      => call.line = Req200Line

\* Reached: a timer sample with a negative value, a key with ':' in it and a
\* label has been formatted and pushed.
C15_Witness ==
    /\ Len(pushed) = 1
    /\ calls[1].pc = "done"
    /\ calls[1].op = "AddSampleWithLabels"
    /\ calls[1].val < 0
    /\ KeySegs = <<BazQux>>
    /\ Len(calls[1].labels) = 1

\* C20: formatting has no side effect: the backing array of the caller's key
\* slice is never written, spare capacity included, and each of two emits
\* sharing one key slice, in whatever order their steps run, pushes the line
\* of the key followed by its own labels.
C20_NoSideEffect ==
    /\ keyArr = key0.arr
    /\ \A c \in DOMAIN calls :
          calls[c].pc = "done" =>
              IsFlatOf(calls[c].flat, KeySegs \o LabelValues(calls[c].labels))

-----------------------------------------------------------------------------
(* Properties of the endpoint factory.                                     *)

\* The named parameter of the URL is present with a valid duration.
ValidParam(name) == url.query[name].present /\ ParseDurationOk(url.query[name].text)

\* C16: NewSinkFromURL returns an error and no sink for a scheme other than
\* statsd, statsite and inmem; for inmem it returns a sink and no error
\* exactly when "interval" and "duration" are both present with valid
\* durations, and an error and no sink otherwise.
C16_FactoryErrors ==
    (result # <<>> /\ url.wellFormed) =>
        /\ url.scheme \notin {"statsd", "statsite", "inmem"} =>
              result[1].sink = "nil" /\ result[1].err # "nil"
        /\ url.scheme = "inmem" =>
              IF ValidParam("interval") /\ ValidParam("duration")
              THEN result[1].sink # "nil" /\ result[1].err = "nil"
              ELSE result[1].sink = "nil" /\ result[1].err # "nil"

=============================================================================
